---------------------------- MODULE Spec2Model ----------------------------
(***************************************************************************)
(* Model of src/src/data/simulate_cohort.py: SyntheticCohortGenerator.      *)
(*                                                                         *)
(* Real-valued quantities are kept exactly on a fixed-point grid:          *)
(*   hours            in units of 1/HU hour      (24 h  = Day)             *)
(*   scores           in units of 1/SU           (1.0   = SU = 80*HU)      *)
(*   shrinkage        in units of 1/PU percent   (100 % = 100*PU)          *)
(*   lab values       in units of 1/SU                                     *)
(*   dates            in days since 2024-01-01, timestamps in minutes      *)
(*                    since 2024-01-01 00:00                               *)
(* SU and PU are chosen so that every product and quotient of the source   *)
(* (x/6*0.3, x/4*0.4, efficacy*100, toxicity*3, ...) is exact on the grid.  *)
(* Python's % with a positive modulus is the non-negative remainder, which *)
(* is what TLA+'s % computes. IEEE-754 rounding is not modelled.           *)
(***************************************************************************)
EXTENDS Integers, Sequences, FiniteSets, TLC

VARIABLES
    pc,                 \* position in generate_cohort, or "unit" for the function harness
    args,               \* [seed, n_patients, n_treatments_per_patient, n_days_circadian]
    rng,                \* self.rng: [seed, pos], pos = number of draws consumed
    demographics,       \* the demographics table (sequence of rows)
    idx,                \* number of demographic rows the per-patient loop has finished
    circadian_profiles, \* list of circadian profile dicts
    all_treatments,     \* list of per-patient treatment tables
    all_labs,           \* list of per-patient lab tables
    result,             \* what generate_cohort returned or raised
    run,                \* 1: first generator, 2: a fresh generator with the same seed
    first,              \* the result of run 1, kept to compare run 2 against
    consumed,           \* history: who consumed which stretch of the random stream
    probe               \* harness: the inputs and outputs of the last function applied

vars == <<pc, args, rng, demographics, idx, circadian_profiles, all_treatments,
          all_labs, result, run, first, consumed, probe>>

----------------------------------------------------------------------------
(* Bounds of the model *)

Res == 1
MaxSeed == 2
MaxPatients == 2
MaxTreatments == 2
MaxDays == 1

(* Grid *)
HU == 2 * Res
Day == 24 * HU
SU == 80 * HU
PU == 4 * HU

(* Python built-ins *)
Max(a, b) == IF a >= b THEN a ELSE b
Min(a, b) == IF a <= b THEN a ELSE b
Abs(a) == IF a < 0 THEN 0 - a ELSE a

RECURSIVE Flatten(_)
Flatten(ss) == IF ss = <<>> THEN <<>> ELSE Head(ss) \o Flatten(Tail(ss))

----------------------------------------------------------------------------
(* The random stream: np.random.RandomState(seed).  The Mersenne Twister is *)
(* abstracted to a fixed function of (seed, position); every draw advances  *)
(* the position by one.                                                     *)

Word(r) == ((r.seed + 1) * (r.pos + 3) * 7 + r.pos * r.pos + r.seed) % 11

Advance(r, k) == [r EXCEPT !.pos = @ + k]

At(r, k) == Advance(r, k)

\* rng.normal(loc, scale): loc + scale * z, z a whole number of sigmas in -2..2
NormalDraw(r, loc, scale) == loc + scale * ((Word(r) % 5) - 2)

\* rng.choice(options): unweighted choice
ChoiceDraw(r, options) == options[(Word(r) % Len(options)) + 1]

\* rng.choice([0,1,2], p=[a,b,c]) with a, b in tenths: inverse-CDF on u = Word/10
WeightedDraw(r, a, b) ==
    LET u == Word(r) % 10
    IN  IF u < a THEN 0 ELSE IF u < a + b THEN 1 ELSE 2

\* rng.uniform(lo, hi) on quarters of the interval
UniformDraw(r, lo, hi) == lo + ((hi - lo) * (Word(r) % 4)) \div 4

\* self.rng = np.random.RandomState(seed); `ambient` is the generator state
\* left behind by whatever ran before, which a seeded RandomState ignores
GlobalRandomState(seed, ambient) == ambient

NewRandomState(seed, ambient) == [seed |-> seed, pos |-> 0]

----------------------------------------------------------------------------
(* generate_patient_demographics *)

DigitChar(d) == <<"0", "1", "2", "3", "4", "5", "6", "7", "8", "9">>[d + 1]

RECURSIVE Digits(_)
Digits(n) == IF n < 10 THEN <<DigitChar(n)>>
             ELSE Append(Digits(n \div 10), DigitChar(n % 10))

RECURSIVE ZeroPad(_, _)
ZeroPad(s, width) == IF Len(s) >= width THEN s ELSE ZeroPad(<<"0">> \o s, width)

PatientIdFromOne(i) == <<"P">> \o ZeroPad(Digits(i + 1), 4)

\* f'P{i:04d}'
PatientId(i) == <<"P">> \o ZeroPad(Digits(i), 4)

\* one iteration of the loop, the generator standing at r before it; the age
\* variates are whole years, on which int(age) changes nothing
Patient(i, r) ==
    [patient_id    |-> PatientId(i),
     age           |-> Max(25, Min(85, NormalDraw(r, 60, 15))),
     sex           |-> ChoiceDraw(At(r, 1), <<"M", "F">>),
     ecog_score    |-> WeightedDraw(At(r, 2), 4, 4),
     bmi           |-> NormalDraw(At(r, 3), 25, 5),
     cancer_type   |-> ChoiceDraw(At(r, 4), <<"breast", "lung", "colorectal", "prostate">>),
     stage         |-> ChoiceDraw(At(r, 5), <<"II", "III", "IV">>),
     comorbidities |-> WeightedDraw(At(r, 6), 5, 3)]

DrawsPerPatient == 7

generate_patient_demographics(n, r) == [i \in 1..n |-> Patient(i - 1, At(r, DrawsPerPatient * (i - 1)))]

----------------------------------------------------------------------------
(* generate_circadian_profile.  sleep_start_hour and sleep_end_hour carry   *)
(* sleep_duration/2, so they are kept in half grid units: HH per hour.      *)

HH == 2 * HU
Day2 == 24 * HH

SleepMidpoint(raw) == raw % Day

SleepDuration(raw) == Max(5 * HU, Min(10 * HU, raw))

SleepStartHour(mid, dur) == (2 * mid - dur) % Day2

SleepEndHour(mid, dur) == (2 * mid + dur) % Day2

\* date.replace(hour=int(h), minute=int((h % 1) * 60)), h in half grid units
ReplaceHourMinute(day, h) == day * 1440 + (h \div HH) * 60 + ((h % HH) * 60) \div HH

\* the (sleep_start, sleep_end) timestamps of one day
SleepWindow(day, start, end) ==
    LET sleep_start == ReplaceHourMinute(day, start)
        sleep_end   == ReplaceHourMinute(day, end)
    IN  [timestamp   |-> sleep_start,
         sleep_start |-> sleep_start,
         sleep_end   |-> IF sleep_end < sleep_start THEN sleep_end + 1440 ELSE sleep_end]

IsSleepBothBranchesAnd(start, end, hour) ==
    IF start < end
    THEN start <= hour * HH /\ hour * HH < end
    ELSE hour * HH >= start /\ hour * HH < end

\* the two-branch sleep test, hour an integer 0..23
IsSleep(start, end, hour) ==
    IF start < end
    THEN start <= hour * HH /\ hour * HH < end
    ELSE hour * HH >= start \/ hour * HH < end

\* one hourly actigraphy sample; r stands before its two draws.  The activity
\* level is kept symbolic (its distribution, the phase fed to sin(), and the
\* variate): exp/log/sin have no value on the grid.
ActigraphyRow(day, hour, start, end, r) ==
    LET is_sleep == IsSleep(start, end, hour)
    IN  [timestamp |-> day * 1440 + hour * 60,
         activity  |-> IF is_sleep
                       THEN <<"exponential", 5, Word(r)>>
                       ELSE <<"normal", (hour * HH - end) % Day2, NormalDraw(r, 0, 10)>>,
         hr        |-> IF is_sleep THEN NormalDraw(At(r, 1), 55, 5)
                                   ELSE NormalDraw(At(r, 1), 70, 10)]

DrawsPerHour == 2

DrawsPerProfileHead == 2

ProfileDraws(n_days) == DrawsPerProfileHead + n_days * 24 * DrawsPerHour

generate_circadian_profile(patient_id, n_days, r) ==
    LET sleep_midpoint == SleepMidpoint(NormalDraw(r, 3 * HU, 3 * Res))
        sleep_duration == SleepDuration(NormalDraw(At(r, 1), 15 * Res, HU))
        start == SleepStartHour(sleep_midpoint, sleep_duration)
        end   == SleepEndHour(sleep_midpoint, sleep_duration)
    IN  [patient_id     |-> patient_id,
         sleep_midpoint |-> sleep_midpoint,
         sleep_duration |-> sleep_duration,
         actigraphy     |-> [k \in 1..(24 * n_days) |->
                               LET day  == (k - 1) \div 24
                                   hour == (k - 1) % 24
                               IN  ActigraphyRow(day, hour, start, end,
                                        At(r, DrawsPerProfileHead + DrawsPerHour * (k - 1)))],
         sleep_data     |-> [d \in 1..n_days |-> SleepWindow(d - 1, start, end)]]

----------------------------------------------------------------------------
(* generate_treatment_episodes *)

ClinicHour(raw) == Max(8 * HU, Min(17 * HU, raw))

TreatmentHourNoUpperClamp(raw) == Max(6 * HU, raw)

TreatmentHour(raw) == Max(6 * HU, Min(20 * HU, raw))

\* pd.Timestamp('2024-01-15') + pd.Timedelta(days=i*21), in days since 2024-01-01
TreatmentDate(i) == 14 + i * 21

OptimalTime(sleep_midpoint) == (sleep_midpoint + 5 * HU) % Day

VulnerablePhase(sleep_midpoint) == (sleep_midpoint + 2 * HU) % Day

LinearOffset(treatment_hour, reference) == Abs(treatment_hour - reference)

\* abs((treatment_hour - reference + 12) % 24 - 12)
CircularOffset(treatment_hour, reference) ==
    Abs(((treatment_hour - reference + 12 * HU) % Day) - 12 * HU)

\* max(0, 1 - time_offset / 6) * 0.3, in score units: 0.3 * SU / (6 * HU) = 4
EfficacyBoost(time_offset) == Max(0, 6 * HU - time_offset) * 4

\* max(0, 1 - toxicity_offset / 4) * 0.4, in score units: 0.4 * SU / (4 * HU) = 8
ToxicityPenalty(toxicity_offset) == Max(0, 4 * HU - toxicity_offset) * 8

\* min(1.0, efficacy_base + efficacy_boost + noise)
Efficacy(treatment_hour, sleep_midpoint, noise) ==
    Min(SU, SU \div 2
            + EfficacyBoost(CircularOffset(treatment_hour, OptimalTime(sleep_midpoint)))
            + noise)

\* min(1.0, toxicity_base + toxicity_penalty + noise), toxicity_base = 0.3
Toxicity(treatment_hour, sleep_midpoint, noise) ==
    Min(SU, (3 * SU) \div 10
            + ToxicityPenalty(CircularOffset(treatment_hour, VulnerablePhase(sleep_midpoint)))
            + noise)

ResponseAtLeast(efficacy) == IF 10 * efficacy >= 6 * SU THEN 1 ELSE 0

\* 1 if efficacy > 0.6 else 0
Response(efficacy) == IF 10 * efficacy > 6 * SU THEN 1 ELSE 0

ToxicityGrade(toxicity) ==
    IF      10 * toxicity < 3 * SU   THEN 0
    ELSE IF 10 * toxicity < 5 * SU   THEN 1
    ELSE IF 10 * toxicity < 7 * SU   THEN 2
    ELSE IF 100 * toxicity < 85 * SU THEN 3
    ELSE 4

\* max(0, min(100, efficacy * 100 + noise)), in 1/PU percent: 100 * PU / SU = 5
TumorShrinkage(efficacy, noise) == Max(0, Min(100 * PU, efficacy * 5 + noise))

\* f'{patient_id}_T{i+1}'
TreatmentId(patient_id, i) == patient_id \o <<"_", "T">> \o Digits(i + 1)

\* one iteration of the loop; d holds the values the seven draws returned, the
\* treatment-hour draw as its deviation from clinic_hour
TreatmentEpisode(patient_id, i, sleep_midpoint, d) ==
    LET clinic_hour    == ClinicHour(d.clinic)
        treatment_hour == TreatmentHour(clinic_hour + d.deviation)
        efficacy       == Efficacy(treatment_hour, sleep_midpoint, d.efficacy_noise)
        toxicity       == Toxicity(treatment_hour, sleep_midpoint, d.toxicity_noise)
    IN  [patient_id          |-> patient_id,
         treatment_id        |-> TreatmentId(patient_id, i),
         treatment_date      |-> TreatmentDate(i),
         treatment_hour      |-> treatment_hour,
         drug_type           |-> d.drug,
         dose                |-> d.dose,
         efficacy_score      |-> efficacy,
         toxicity_score      |-> toxicity,
         response            |-> Response(efficacy),
         toxicity_grade      |-> ToxicityGrade(toxicity),
         tumor_shrinkage_pct |-> TumorShrinkage(efficacy, d.shrinkage_noise)]

DrawsPerEpisode == 7

\* the seven draws of one iteration, in the order the code makes them
EpisodeDraws(r) ==
    [clinic          |-> NormalDraw(r, 13 * HU, 2 * HU),
     deviation       |-> NormalDraw(At(r, 1), 0, 3 * Res),
     drug            |-> ChoiceDraw(At(r, 2), <<"platinum", "taxane", "anthracycline">>),
     dose            |-> UniformDraw(At(r, 3), (8 * SU) \div 10, (12 * SU) \div 10),
     efficacy_noise  |-> NormalDraw(At(r, 4), 0, SU \div 10),
     toxicity_noise  |-> NormalDraw(At(r, 5), 0, SU \div 10),
     shrinkage_noise |-> NormalDraw(At(r, 6), 0, 10 * PU)]

generate_treatment_episodes(patient_id, n_treatments, circadian_profile, r) ==
    [k \in 1..n_treatments |->
        TreatmentEpisode(patient_id, k - 1, circadian_profile.sleep_midpoint,
                         EpisodeDraws(At(r, DrawsPerEpisode * (k - 1))))]

----------------------------------------------------------------------------
(* generate_lab_data *)

DaysBeforeShifted == <<7, 3, 0>>

DaysBefore == <<7, 3, 1>>

DaysAfter == <<3, 7, 14>>

DrawsPerLab == 5

PreLab(patient_id, treatment, days_before, r) ==
    [patient_id |-> patient_id,
     date       |-> treatment.treatment_date - days_before,
     wbc        |-> NormalDraw(r, 6 * SU, 2 * SU),
     hemoglobin |-> NormalDraw(At(r, 1), 12 * SU, 2 * SU),
     platelets  |-> NormalDraw(At(r, 2), 250 * SU, 80 * SU),
     creatinine |-> NormalDraw(At(r, 3), SU, (3 * SU) \div 10),
     alt        |-> NormalDraw(At(r, 4), 30 * SU, 15 * SU)]

PostLab(patient_id, treatment, days_after, r) ==
    LET toxicity == treatment.toxicity_score
    IN  [patient_id |-> patient_id,
         date       |-> treatment.treatment_date + days_after,
         wbc        |-> Max(2 * SU, NormalDraw(r, 6 * SU - toxicity * 3, (3 * SU) \div 2)),
         hemoglobin |-> Max(8 * SU, NormalDraw(At(r, 1), 12 * SU - toxicity * 2, (3 * SU) \div 2)),
         platelets  |-> Max(50 * SU, NormalDraw(At(r, 2), 250 * SU - toxicity * 100, 50 * SU)),
         creatinine |-> NormalDraw(At(r, 3), SU, (3 * SU) \div 10),
         alt        |-> NormalDraw(At(r, 4), 30 * SU + toxicity * 10, 15 * SU)]

\* the six records of one episode
EpisodeLabs(patient_id, treatment, r) ==
    [j \in 1..(Len(DaysBefore) + Len(DaysAfter)) |->
        IF j <= Len(DaysBefore)
        THEN PreLab(patient_id, treatment, DaysBefore[j], At(r, DrawsPerLab * (j - 1)))
        ELSE PostLab(patient_id, treatment, DaysAfter[j - Len(DaysBefore)],
                     At(r, DrawsPerLab * (j - 1)))]

LabDraws(n_episodes) == n_episodes * (Len(DaysBefore) + Len(DaysAfter)) * DrawsPerLab

generate_lab_data(patient_id, treatment_episodes, r) ==
    Flatten([k \in 1..Len(treatment_episodes) |->
        EpisodeLabs(patient_id, treatment_episodes[k], At(r, LabDraws(k - 1)))])

----------------------------------------------------------------------------
(* generate_cohort, run on a generator built by __init__(seed) *)

Pending == [status |-> "pending"]

Init ==
    /\ pc = "demographics"
    /\ args \in [seed : 0..MaxSeed,
                 n_patients : 0..MaxPatients,
                 n_treatments_per_patient : 0..MaxTreatments,
                 n_days_circadian : 0..MaxDays]
    /\ \E g \in 0..MaxSeed : rng = NewRandomState(args.seed, [seed |-> g, pos |-> 0])
    /\ demographics = <<>>
    /\ idx = 0
    /\ circadian_profiles = <<>>
    /\ all_treatments = <<>>
    /\ all_labs = <<>>
    /\ result = Pending
    /\ run = 1
    /\ first = Pending
    /\ consumed = <<>>
    /\ probe = [fn |-> "none"]

\* history entry: `by` consumed the draws from..to-1 on behalf of demographic row `row`
Consumption(by, row, from, to) == [by |-> by, row |-> row, from |-> from, to |-> to]

\* demographics = self.generate_patient_demographics(n_patients)
GenerateDemographics ==
    /\ pc = "demographics"
    /\ demographics' = generate_patient_demographics(args.n_patients, rng)
    /\ rng' = Advance(rng, DrawsPerPatient * args.n_patients)
    /\ consumed' = Append(consumed, Consumption("demographics", 0, rng.pos, rng'.pos))
    /\ pc' = IF args.n_patients = 0 THEN "combine" ELSE "circadian"
    /\ UNCHANGED <<args, idx, circadian_profiles, all_treatments, all_labs, result,
                   run, first, probe>>

\* circadian = self.generate_circadian_profile(patient_id, n_days_circadian)
GenerateCircadianProfile ==
    /\ pc = "circadian"
    /\ circadian_profiles' = Append(circadian_profiles,
            generate_circadian_profile(demographics[idx + 1].patient_id, args.n_days_circadian, rng))
    /\ rng' = Advance(rng, ProfileDraws(args.n_days_circadian))
    /\ consumed' = Append(consumed, Consumption("circadian", idx + 1, rng.pos, rng'.pos))
    /\ pc' = "treatments"
    /\ UNCHANGED <<args, demographics, idx, all_treatments, all_labs, result, run,
                   first, probe>>

\* treatments = self.generate_treatment_episodes(patient_id, n_treatments_per_patient, circadian)
GenerateTreatmentEpisodes ==
    /\ pc = "treatments"
    /\ all_treatments' = Append(all_treatments,
            generate_treatment_episodes(demographics[idx + 1].patient_id,
                              args.n_treatments_per_patient,
                              circadian_profiles[idx + 1], rng))
    /\ rng' = Advance(rng, DrawsPerEpisode * args.n_treatments_per_patient)
    /\ consumed' = Append(consumed, Consumption("treatments", idx + 1, rng.pos, rng'.pos))
    /\ pc' = "labs"
    /\ UNCHANGED <<args, demographics, idx, circadian_profiles, all_labs, result,
                   run, first, probe>>

\* labs = self.generate_lab_data(patient_id, treatments), then the next row
GenerateLabData ==
    /\ pc = "labs"
    /\ all_labs' = Append(all_labs,
            generate_lab_data(demographics[idx + 1].patient_id, all_treatments[idx + 1], rng))
    /\ rng' = Advance(rng, LabDraws(Len(all_treatments[idx + 1])))
    /\ consumed' = Append(consumed, Consumption("labs", idx + 1, rng.pos, rng'.pos))
    /\ idx' = idx + 1
    /\ pc' = IF idx + 1 < Len(demographics) THEN "circadian" ELSE "combine"
    /\ UNCHANGED <<args, demographics, circadian_profiles, all_treatments, result,
                   run, first, probe>>

ConcatNewestFirst(frames) ==
    IF frames = <<>> THEN [status |-> "ValueError", rows |-> <<>>]
                     ELSE [status |-> "ok",
                           rows   |-> Flatten([j \in 1..Len(frames) |->
                                                  frames[Len(frames) + 1 - j]])]

\* pd.concat(frames, ignore_index=True): raises ValueError on an empty list
Concat(frames) ==
    IF frames = <<>> THEN [status |-> "ValueError", rows |-> <<>>]
                     ELSE [status |-> "ok", rows |-> Flatten(frames)]

\* Combine, and return
Combine ==
    /\ pc = "combine"
    /\ LET all_treatments_df == Concat(all_treatments)
           all_labs_df       == Concat(all_labs)
       IN  result' = IF all_treatments_df.status # "ok"
                     THEN [status |-> all_treatments_df.status]
                     ELSE IF all_labs_df.status # "ok"
                     THEN [status |-> all_labs_df.status]
                     ELSE [status             |-> "returned",
                           demographics       |-> demographics,
                           circadian_profiles |-> circadian_profiles,
                           treatments         |-> all_treatments_df.rows,
                           labs               |-> all_labs_df.rows]
    /\ pc' = "done"
    /\ UNCHANGED <<args, rng, demographics, idx, circadian_profiles, all_treatments,
                   all_labs, run, first, consumed, probe>>

\* a second, freshly constructed generator with the same seed runs
\* generate_cohort with the same parameters
Rerun ==
    /\ pc = "done"
    /\ run = 1
    /\ first' = result
    /\ run' = 2
    /\ rng' = NewRandomState(args.seed, rng)
    /\ demographics' = <<>>
    /\ idx' = 0
    /\ circadian_profiles' = <<>>
    /\ all_treatments' = <<>>
    /\ all_labs' = <<>>
    /\ result' = Pending
    /\ consumed' = <<>>
    /\ pc' = "demographics"
    /\ UNCHANGED <<args, probe>>

Next ==
    \/ GenerateDemographics
    \/ GenerateCircadianProfile
    \/ GenerateTreatmentEpisodes
    \/ GenerateLabData
    \/ Combine
    \/ Rerun

Spec == Init /\ [][Next]_vars

----------------------------------------------------------------------------
(* Function harness: each step applies one part of the generator to inputs  *)
(* taken from the whole grid, where the seeded stream above yields only a   *)
(* few variates.  A value a normal draw returns can be any grid value.      *)

\* values rng.normal(3.0, 1.5) may return: a quarter turn below 0 to a quarter turn past 24
MidpointDraws == (0 - Day \div 4)..(Day + Day \div 4 - 1)

\* values rng.normal(7.5, 1.0) may return: 3 h .. 12 h
DurationDraws == (3 * HU)..(12 * HU)

\* values rng.normal(13, 2) may return: below, inside and above the clinic hours
ClinicDraws == {5 * HU, 13 * HU, 19 * HU}

\* deviations of rng.normal(clinic_hour, 1.5) from clinic_hour: -9 h .. 9 h
DeviationDraws == (0 - 9 * HU)..(9 * HU)

\* noise variates in eighths of a standard deviation
NoiseLevels == {-72, -28, -24, -9, -8, -1, 0, 1, 8, 12, 16, 44, 72}

\* the three noise draws of an episode: normal(0, 0.1) twice, then normal(0, 10)
NoiseDraws == {[efficacy_noise  |-> l * (SU \div 80),
                toxicity_noise  |-> m * l * (SU \div 80),
                shrinkage_noise |-> m * l * ((10 * PU) \div 8)] :
               l \in NoiseLevels, m \in {-1, 1}}

InitUnit ==
    /\ pc = "unit"
    /\ args = [seed |-> 0, n_patients |-> 0, n_treatments_per_patient |-> 0,
               n_days_circadian |-> 0]
    /\ rng = NewRandomState(0, [seed |-> 0, pos |-> 0])
    /\ demographics = <<>>
    /\ idx = 0
    /\ circadian_profiles = <<>>
    /\ all_treatments = <<>>
    /\ all_labs = <<>>
    /\ result = Pending
    /\ run = 1
    /\ first = Pending
    /\ consumed = <<>>
    /\ probe = [fn |-> "none"]

Probed(p) ==
    /\ probe' = p
    /\ pc' = "probed"
    /\ UNCHANGED <<args, rng, demographics, idx, circadian_profiles, all_treatments,
                   all_labs, result, run, first, consumed>>

\* the offset expression, against optimal_time and against vulnerable_phase
ApplyCircularOffset ==
    /\ pc = "unit"
    /\ \E treatment_hour \in 0..(Day - 1), sleep_midpoint \in 0..(Day - 1),
          against \in {"optimal_time", "vulnerable_phase"} :
          LET reference == IF against = "optimal_time"
                           THEN OptimalTime(sleep_midpoint)
                           ELSE VulnerablePhase(sleep_midpoint)
          IN  Probed([fn             |-> "offset",
                      sleep_midpoint |-> sleep_midpoint,
                      treatment_hour |-> treatment_hour,
                      against        |-> against,
                      reference      |-> reference,
                      offset         |-> CircularOffset(treatment_hour, reference)])

\* the head of generate_circadian_profile and one day of its loop
ApplyCircadianProfile ==
    /\ pc = "unit"
    /\ \E midpoint_draw \in MidpointDraws, duration_draw \in DurationDraws,
          day \in 0..MaxDays :
          LET sleep_midpoint == SleepMidpoint(midpoint_draw)
              sleep_duration == SleepDuration(duration_draw)
              start == SleepStartHour(sleep_midpoint, sleep_duration)
              end   == SleepEndHour(sleep_midpoint, sleep_duration)
          IN  Probed([fn               |-> "profile",
                      day              |-> day,
                      sleep_midpoint   |-> sleep_midpoint,
                      sleep_duration   |-> sleep_duration,
                      sleep_start_hour |-> start,
                      sleep_end_hour   |-> end,
                      window           |-> SleepWindow(day, start, end),
                      is_sleep         |-> [hour \in 0..23 |-> IsSleep(start, end, hour)]])

\* the first iteration of the loop of generate_treatment_episodes
ApplyTreatmentEpisode ==
    /\ pc = "unit"
    /\ \E sleep_midpoint \in 0..(Day - 1), clinic \in ClinicDraws,
          deviation \in DeviationDraws, noise \in NoiseDraws :
          LET d == [clinic          |-> clinic,
                    deviation       |-> deviation,
                    drug            |-> "platinum",
                    dose            |-> SU,
                    efficacy_noise  |-> noise.efficacy_noise,
                    toxicity_noise  |-> noise.toxicity_noise,
                    shrinkage_noise |-> noise.shrinkage_noise]
          IN  Probed([fn               |-> "episode",
                      sleep_midpoint   |-> sleep_midpoint,
                      optimal_time     |-> OptimalTime(sleep_midpoint),
                      vulnerable_phase |-> VulnerablePhase(sleep_midpoint),
                      episode          |-> TreatmentEpisode(PatientId(0), 0, sleep_midpoint, d)])

NextUnit ==
    \/ ApplyCircularOffset
    \/ ApplyCircadianProfile
    \/ ApplyTreatmentEpisode

SpecUnit == InitUnit /\ [][NextUnit]_vars

----------------------------------------------------------------------------
(* Properties *)

\* C1: every treatment episode has efficacy_score and toxicity_score in [0,1],
\* lower bound 0 and upper bound 1 both.
C1_ScoresInUnitInterval ==
    probe.fn = "episode" =>
        /\ 0 <= probe.episode.efficacy_score /\ probe.episode.efficacy_score <= SU
        /\ 0 <= probe.episode.toxicity_score /\ probe.episode.toxicity_score <= SU

\* C2: generate_cohort with n_patients = 0 completes without raising and
\* returns an empty cohort: no demographic rows, profiles, episodes or labs.
C2_ZeroPatientsGiveEmptyCohort ==
    (pc = "done" /\ args.n_patients = 0) =>
        /\ result.status = "returned"
        /\ result.demographics = <<>>
        /\ result.circadian_profiles = <<>>
        /\ result.treatments = <<>>
        /\ result.labs = <<>>

\* C3: the offset lies in [0,12] and is the shortest distance on the 24-hour
\* circle, min(|t - ref|, 24 - |t - ref|), for every treatment_hour and every
\* reference (optimal_time or vulnerable_phase) in [0,24); sleep_midpoint = 0
\* gives optimal_time = 5, and treatment_hour = 23 then gives offset 6.
C3_OffsetIsCircularDistance ==
    probe.fn = "offset" =>
        LET linear == IF probe.treatment_hour >= probe.reference
                      THEN probe.treatment_hour - probe.reference
                      ELSE probe.reference - probe.treatment_hour
        IN  /\ 0 <= probe.reference /\ probe.reference < Day
            /\ 0 <= probe.offset /\ probe.offset <= 12 * HU
            /\ probe.offset = (IF linear <= Day - linear THEN linear ELSE Day - linear)
            /\ (probe.sleep_midpoint = 0 /\ probe.against = "optimal_time")
                   => probe.reference = 5 * HU
            /\ (probe.sleep_midpoint = 0 /\ probe.against = "optimal_time"
                /\ probe.treatment_hour = 23 * HU) => probe.offset = 6 * HU

C3_Witness ==
    /\ probe.fn = "offset"
    /\ probe.sleep_midpoint = 0
    /\ probe.against = "optimal_time"
    /\ probe.treatment_hour = 23 * HU
    /\ probe.offset = 6 * HU

\* C4: response = 1 iff efficacy_score > 0.6 (0.6 itself gives 0), and
\* toxicity_grade is the non-decreasing step function of toxicity_score with
\* breakpoints 0.3, 0.5, 0.7, 0.85: the number of breakpoints at or below the
\* score, so always one of 0..4.
C4_OutcomesFollowScores ==
    probe.fn = "episode" =>
        LET e == probe.episode
        IN  /\ e.response \in {0, 1}
            /\ (e.response = 1) <=> (100 * e.efficacy_score > 60 * SU)
            /\ e.toxicity_grade \in 0..4
            /\ e.toxicity_grade =
                   Cardinality({b \in {30, 50, 70, 85} : 100 * e.toxicity_score >= b * SU})

C4_Witness ==
    /\ probe.fn = "episode"
    /\ 100 * probe.episode.efficacy_score = 60 * SU
    /\ probe.episode.response = 0
    /\ 100 * probe.episode.toxicity_score = 70 * SU
    /\ probe.episode.toxicity_grade = 3

\* C5: every episode handed to generate_lab_data yields exactly 6 records, all
\* with the owning patient's id: dated 7, 3, 1 days before and 3, 7, 14 days
\* after the episode's treatment_date, in that order, ahead of the records of
\* the next episode.
C5_SixLabsPerEpisode ==
    \A p \in 1..Len(all_labs) :
        /\ Len(all_labs[p]) = 6 * Len(all_treatments[p])
        /\ \A k \in 1..Len(all_treatments[p]) :
               LET t == all_treatments[p][k]
                   offsets == <<-7, -3, -1, 3, 7, 14>>
               IN  \A j \in 1..6 :
                       /\ all_labs[p][6 * (k - 1) + j].patient_id = demographics[p].patient_id
                       /\ all_labs[p][6 * (k - 1) + j].patient_id = t.patient_id
                       /\ all_labs[p][6 * (k - 1) + j].date = t.treatment_date + offsets[j]

C5_Witness ==
    /\ Len(all_labs) >= 2
    /\ Len(all_treatments[2]) >= 2
    /\ Len(all_labs[2]) = 12

C7_StreamOrder ==
    /\ \A j \in 1..Len(consumed) :
           /\ consumed[j].from = (IF j = 1 THEN 0 ELSE consumed[j - 1].to)
           /\ consumed[j].from <= consumed[j].to
           /\ IF j = 1
              THEN /\ consumed[j].by = "demographics"
                   /\ consumed[j].to = 7 * args.n_patients
                   /\ Len(demographics) = args.n_patients
              ELSE /\ consumed[j].row = ((j - 2) \div 3) + 1
                   /\ consumed[j].by = <<"circadian", "treatments", "labs">>[((j - 2) % 3) + 1]
    /\ pc # "demographics" => Len(consumed) >= 1
    /\ (pc = "done" /\ result.status = "returned") =>
           LET k == args.n_treatments_per_patient
           IN  /\ Len(consumed) = 1 + 3 * args.n_patients
               /\ consumed[Len(consumed)].to = rng.pos
               /\ Len(result.treatments) = args.n_patients * k
               /\ Len(result.labs) = args.n_patients * k * 6
               /\ \A p \in 1..args.n_patients : \A e \in 1..k :
                      /\ result.treatments[(p - 1) * k + e] = all_treatments[p][e]
                      /\ \A j \in 1..6 :
                             result.labs[((p - 1) * k + (e - 1)) * 6 + j]
                                 = all_labs[p][(e - 1) * 6 + j]

C7_Witness ==
    /\ pc = "done"
    /\ result.status = "returned"
    /\ args.n_patients = 2
    /\ args.n_treatments_per_patient = 2
    /\ Len(consumed) = 7
    /\ consumed[5].by = "circadian"
    /\ consumed[5].row = 2
    /\ consumed[4].to > consumed[4].from
    /\ result.treatments[3].patient_id # result.treatments[2].patient_id

\* C8: with n >= 1 patients and k >= 1 treatments per patient the cohort has
\* exactly n patients with ids P0000, P0001, ... in index order, exactly k
\* episodes per patient with ids {patient_id}_T1 .. {patient_id}_Tk, unique
\* across the cohort, episode i (0-based) dated anchor + 21*i days, and
\* exactly 6*n*k lab records; n = 1, k = 1 gives 1 patient, 1 episode, 6 labs.
C8_CohortShape ==
    (pc = "done" /\ args.n_patients >= 1 /\ args.n_treatments_per_patient >= 1) =>
        LET n == args.n_patients
            k == args.n_treatments_per_patient
            digit == <<"0", "1", "2", "3", "4", "5", "6", "7", "8", "9">>
        IN  /\ result.status = "returned"
            /\ Len(result.demographics) = n
            /\ \A p \in 1..n :
                   result.demographics[p].patient_id = <<"P", "0", "0", "0", digit[p]>>
            /\ Len(result.circadian_profiles) = n
            /\ Len(result.treatments) = n * k
            /\ \A p \in 1..n : \A e \in 1..k :
                   LET t == result.treatments[(p - 1) * k + e]
                   IN  /\ t.patient_id = result.demographics[p].patient_id
                       /\ t.treatment_id =
                              <<"P", "0", "0", "0", digit[p], "_", "T", digit[e + 1]>>
                       /\ t.treatment_date = 14 + 21 * (e - 1)
            /\ \A a, b \in 1..(n * k) :
                   result.treatments[a].treatment_id = result.treatments[b].treatment_id
                       => a = b
            /\ Len(result.labs) = 6 * n * k
            /\ (n = 1 /\ k = 1) =>
                   /\ Len(result.demographics) = 1
                   /\ Len(result.treatments) = 1
                   /\ Len(result.labs) = 6

C8_Witness ==
    /\ pc = "done"
    /\ args.n_patients = 1
    /\ args.n_treatments_per_patient = 1
    /\ result.status = "returned"
    /\ result.demographics[1].patient_id = <<"P", "0", "0", "0", "0">>
    /\ Len(result.treatments) = 1
    /\ Len(result.labs) = 6

C10_SleepTestIsCircularInterval ==
    probe.fn = "profile" =>
        LET wraps == probe.sleep_start_hour + 2 * probe.sleep_duration >= 24 * HH
        IN  /\ \A hour \in 0..23 :
                   probe.is_sleep[hour]
                       <=> ((hour * HH - probe.sleep_start_hour) % (24 * HH)
                                < 2 * probe.sleep_duration)
            /\ probe.window.sleep_end > probe.window.sleep_start
            /\ probe.window.sleep_start \div 1440 = probe.day
            /\ probe.window.sleep_end \div 1440 = (IF wraps THEN probe.day + 1 ELSE probe.day)

C10_Witness ==
    /\ probe.fn = "profile"
    /\ probe.sleep_end_hour < probe.sleep_start_hour
    /\ probe.is_sleep[23]
    /\ probe.is_sleep[0]
    /\ ~probe.is_sleep[12]
    /\ probe.window.sleep_end \div 1440 = probe.day + 1

============================================================================
